---- MODULE Spec2Model ----
(***************************************************************************)
(* ARPU emulator (ReFruity/arpuemu): the fetch-dispatch-execute state      *)
(* machine of ARPUEmulator, executing the resolved instruction records     *)
(* (AsmLine) of an assembled program.                                      *)
(*                                                                         *)
(* Indices are 0-based as in the source: lineIndex, register, port and     *)
(* operand indices count from 0; TLA+ sequences count from 1, so record i  *)
(* of asmLines is asmLines[i + 1] and operand k is operands[k + 1].        *)
(***************************************************************************)
EXTENDS Integers, Sequences, FiniteSets, TLC

VARIABLES
  asmLines,            \* resolved instruction records, offsets filled in
  PMEM,                \* program memory: the byte image of asmLines
  lineIndex,           \* current position in asmLines (0-based)
  registers,           \* R1 - R4, indexed 0..3
  PC,                  \* program counter (byte offset)
  ZF, COUTF, MSBF, LSBF,
  RAM,
  stack,
  inputPorts,
  outputPorts,
  isWaitingPortInput,
  cycle,
  lastCall,            \* observer: the call made last, <<name, arguments>>
  thrown               \* observer: the error the last call threw, or "none"

vars == <<asmLines, PMEM, lineIndex, registers, PC, ZF, COUTF, MSBF, LSBF, RAM,
          stack, inputPorts, outputPorts, isWaitingPortInput, cycle,
          lastCall, thrown>>

\* The emulator state proper (ARPUEmulatorState), without the observers.
state == <<asmLines, PMEM, lineIndex, registers, PC, ZF, COUTF, MSBF, LSBF, RAM,
           stack, inputPorts, outputPorts, isWaitingPortInput, cycle>>

flagVars == <<ZF, COUTF, MSBF, LSBF>>

----------------------------------------------------------------------------
(* Bounds of the model *)

\* step()/portInput() are not taken once cycle has reached this value.
MaxCycle == 5

\* BRA literal targets range over 0..MaxTarget.
MaxTarget == 4

\* Number of RAM cells kept by the model.
RamCells == 2

(* Program constants *)

WORD_SIZE == 256

\* Values the caller passes to portInput(value: number), which checks none.
PortValues == {0, 2, 255, 256}

----------------------------------------------------------------------------
(* AsmLine *)

Line(mnemonic, operands) == [mnemonic |-> mnemonic, operands |-> operands]

\* sizeInBytes = operands.length === 3 ? 2 : 1
getSizeInBytes(line) == IF Len(line.operands) = 3 THEN 2 ELSE 1

\* Layout pass of the assembler: the offset of record i (1-based) is the sum
\* of the sizes of the records before it.
RECURSIVE offsetOf(_, _)
offsetOf(lines, i) ==
  IF i <= 1 THEN 0
  ELSE offsetOf(lines, i - 1) + getSizeInBytes(lines[i - 1])

compileIntermediateRepresentation(lines) ==
  [i \in 1..Len(lines) |->
     [mnemonic      |-> lines[i].mnemonic,
      operands      |-> lines[i].operands,
      offsetInBytes |-> offsetOf(lines, i)]]

getOffsetInBytes(line) == line.offsetInBytes

\* Operand.toInt() of operand k (0-based) of a resolved operand list.
toInt(operands, k) == operands[k + 1]

\* mnemonics.ts: the opcode of a mnemonic is its position in this table.
INSTRUCTION_MNEMONICS ==
  << "ADD", "SUB", "RSH", "INC", "DEC", "BIT", "CAL", "RET",
     "PST", "PLD", "IMM", "STR", "LOD", "SOP", "BRA", "MOV" >>

----------------------------------------------------------------------------
(* The assembler's records: operands that may be label references, labelled *)
(* records, the two passes that fill offsets and immediates, and the        *)
(* queries getBytes() and isHalt() of AsmLine.                              *)

DATA_MNEMONIC == "DW"

\* The value of an optional field that was never assigned: a label, and an
\* immediate or offset.
NoLabel == "undefined"
NoValue == -1

Operand(immediate, label) == [immediate |-> immediate, label |-> label]

\* An operand written as a register or a literal, and one written as a label.
literal(n) == Operand(n, NoLabel)
reference(name) == Operand(NoValue, name)

\* opcode = INSTRUCTION_MNEMONICS.findIndex(...): 0-based, -1 when the
\* mnemonic is not in the table.
opcodeOf(mnemonic) ==
  IF \E i \in 1..Len(INSTRUCTION_MNEMONICS) : INSTRUCTION_MNEMONICS[i] = mnemonic
  THEN (CHOOSE i \in 1..Len(INSTRUCTION_MNEMONICS) :
          INSTRUCTION_MNEMONICS[i] = mnemonic) - 1
  ELSE -1

\* new AsmLine(mnemonic, operands)
AsmLine(mnemonic, operands) ==
  [isData        |-> mnemonic = DATA_MNEMONIC,
   mnemonic      |-> mnemonic,
   operands      |-> operands,
   sizeInBytes   |-> IF Len(operands) = 3 THEN 2 ELSE 1,
   opcode        |-> opcodeOf(mnemonic),
   offsetInBytes |-> NoValue,
   label         |-> NoLabel]

\* Source statements: a label definition on a line of its own, and an
\* instruction or data directive.
LabelLine(name) ==
  [kind |-> "label", name |-> name, mnemonic |-> "", operands |-> <<>>]
Statement(mnemonic, operands) ==
  [kind |-> "statement", name |-> NoLabel, mnemonic |-> mnemonic,
   operands |-> operands]

\* Sum of the sizes of the records.
RECURSIVE sizeOfLines(_)
sizeOfLines(lines) ==
  IF lines = <<>> THEN 0
  ELSE lines[Len(lines)].sizeInBytes +
         sizeOfLines(SubSeq(lines, 1, Len(lines) - 1))

\* Layout pass: records in source order, each at the sum of the sizes of the
\* records before it; a label names the record that follows it and is
\* recorded with that record's offset.
RECURSIVE layoutPass(_, _, _, _)
layoutPass(source, lines, labels, pending) ==
  IF source = <<>> THEN [lines |-> lines, labels |-> labels]
  ELSE LET statement == Head(source)
           offset == sizeOfLines(lines)
       IN IF statement.kind = "label"
          THEN layoutPass(Tail(source), lines,
                          (statement.name :> offset) @@ labels, statement.name)
          ELSE layoutPass(Tail(source),
                          Append(lines,
                                 [AsmLine(statement.mnemonic, statement.operands)
                                    EXCEPT !.offsetInBytes = offset,
                                           !.label = pending]),
                          labels, NoLabel)

\* Variant of the resolution pass that fills in the offset of the record
\* holding the operand.
resolutionPass_ownOffset(lines, labels) ==
  [i \in 1..Len(lines) |->
     [lines[i] EXCEPT !.operands =
        [k \in 1..Len(lines[i].operands) |->
           LET operand == lines[i].operands[k]
           IN IF operand.label = NoLabel THEN operand
              ELSE [operand EXCEPT !.immediate = lines[i].offsetInBytes]]]]

\* Resolution pass: every label operand receives the offset recorded for its
\* name.
resolutionPass(lines, labels) ==
  [i \in 1..Len(lines) |->
     [lines[i] EXCEPT !.operands =
        [k \in 1..Len(lines[i].operands) |->
           LET operand == lines[i].operands[k]
           IN IF operand.label = NoLabel THEN operand
              ELSE [operand EXCEPT !.immediate = labels[operand.label]]]]]

\* The intermediate representation of a source with labels.
assemble(source) ==
  LET laidOut == layoutPass(source, <<>>, <<>>, NoLabel)
  IN resolutionPass(laidOut.lines, laidOut.labels)

\* n << k on the small non-negative values of operands.
shiftLeft(n, k) == n * (2 ^ k)

\* AsmLine.getBytes() once every operand has an immediate: an absent operand
\* reads as undefined, which ?? and << turn into 0.
getBytes_swapsFields(line) ==
  LET operandInts == [k \in 1..Len(line.operands) |->
                        line.operands[k].immediate]
      operandInt1 == IF Len(operandInts) >= 1 THEN operandInts[1] ELSE 0
      operandInt2 == IF Len(operandInts) >= 2 THEN operandInts[2] ELSE 0
      byte1 == shiftLeft(operandInt1, 6) + shiftLeft(operandInt2, 4) +
                 line.opcode
  IN IF Len(operandInts) >= 3 THEN <<byte1, operandInts[3]>> ELSE <<byte1>>

getBytes(line) ==
  LET operandInts == [k \in 1..Len(line.operands) |->
                        line.operands[k].immediate]
      operandInt1 == IF Len(operandInts) >= 1 THEN operandInts[1] ELSE 0
      operandInt2 == IF Len(operandInts) >= 2 THEN operandInts[2] ELSE 0
      byte1 == shiftLeft(operandInt2, 6) + shiftLeft(operandInt1, 4) +
                 line.opcode
  IN IF Len(operandInts) >= 3 THEN <<byte1, operandInts[3]>> ELSE <<byte1>>

\* Encoder: the bytes of the records, in order.
RECURSIVE IRToMachineCode(_)
IRToMachineCode(lines) ==
  IF lines = <<>> THEN <<>>
  ELSE getBytes(Head(lines)) \o IRToMachineCode(Tail(lines))

\* The assembler's record of a line whose operands are plain integers.
asAsmLine(line) ==
  AsmLine(line.mnemonic,
          [k \in 1..Len(line.operands) |-> literal(line.operands[k])])

\* AsmLine.isHalt()
isHalt(line) ==
  LET isSelfBranch == /\ line.mnemonic = "BRA"
                      /\ line.operands[3].label = line.label
      isReturnOne == /\ line.mnemonic = "RET"
                     /\ Len(line.operands) >= 1
                     /\ line.operands[1].immediate = 1
  IN isSelfBranch \/ isReturnOne

\* Third operands of the encoded records.
ByteValues == {0, 4, 255}

\* One record of every mnemonic with every operand list of 0 to 3 operands.
EncodingSources ==
  { << Statement(INSTRUCTION_MNEMONICS[m], operands) >> :
      m \in 1..Len(INSTRUCTION_MNEMONICS),
      operands \in
        {<<>>} \cup
        { <<literal(a)>> : a \in 0..3 } \cup
        { <<literal(a), literal(b)>> : a \in 0..3, b \in 0..3 } \cup
        { <<literal(a), literal(b), literal(v)>> :
            a \in 0..3, b \in 0..3, v \in ByteValues } }

\* Data directives, alone and after a two-byte record.
DataSources ==
  { << Statement("DW", <<literal(v)>>) >> : v \in {0, 1, 42, 255} } \cup
  { << Statement("IMM", <<literal(0), literal(0), literal(1)>>),
       Statement("DW", <<literal(v)>>) >> : v \in {0, 1, 42, 255} }

\* Branches to labels ahead, behind and on the branch itself, to a literal
\* with and without a label on the branch, and calls with their returns.
LabelSources ==
  { << Statement("BRA", <<literal(c), literal(f), reference("branch")>>),
       Statement("IMM", <<literal(0), literal(0), literal(1)>>),
       LabelLine("branch"),
       Statement("IMM", <<literal(0), literal(0), literal(2)>>) >> :
      c \in 0..3, f \in 0..3 } \cup
  { << LabelLine("branch"),
       Statement("IMM", <<literal(0), literal(0), literal(2)>>),
       Statement("BRA", <<literal(0), literal(0), reference("branch")>>),
       Statement("IMM", <<literal(0), literal(0), literal(1)>>) >>,
    << Statement("INC", <<literal(0), literal(1)>>),
       LabelLine("halt"),
       Statement("BRA", <<literal(0), literal(0), reference("halt")>>) >>,
    << LabelLine("start"),
       Statement("INC", <<literal(0), literal(1)>>),
       LabelLine("loop"),
       Statement("BRA", <<literal(0), literal(0), reference("start")>>),
       LabelLine("end"),
       Statement("BRA", <<literal(0), literal(0), reference("end")>>) >>,
    << Statement("CAL", <<literal(0), literal(0), reference("procedure")>>),
       LabelLine("procedure"),
       Statement("RET", <<>>) >>,
    << Statement("CAL", <<literal(0), literal(0), reference("procedure")>>),
       Statement("RET", <<literal(1)>>),
       LabelLine("procedure"),
       Statement("PST", <<literal(0), literal(0)>>),
       Statement("RET", <<literal(0)>>) >> } \cup
  { << Statement("INC", <<literal(0), literal(1)>>),
       Statement("BRA", <<literal(0), literal(0), literal(t)>>) >> :
      t \in 0..MaxTarget } \cup
  { << Statement("INC", <<literal(0), literal(1)>>),
       LabelLine("loop"),
       Statement("BRA", <<literal(0), literal(0), literal(t)>>) >> :
      t \in 0..MaxTarget }

Sources == EncodingSources \cup DataSources \cup LabelSources

----------------------------------------------------------------------------
(* Programs the emulator is constructed from *)

\* BRA over every condition, every control byte and targets that are and
\* are not record offsets, in the shape of the forward-jump tests.
ForwardBranchPrograms ==
  { << Line("BRA", <<c, f, t>>), Line("IMM", <<0, 0, 1>>),
       Line("IMM", <<0, 0, 2>>) >> :
      c \in 0..3, f \in 0..3, t \in 0..MaxTarget }

\* BRA in second position: backward jumps, self loops.
BackwardBranchPrograms ==
  { << Line("INC", <<0, 1>>), Line("BRA", <<c, f, t>>),
       Line("PST", <<0, 0>>) >> :
      c \in 0..3, f \in {0, 1, 3}, t \in 0..MaxTarget }

BasicLines ==
  { Line("INC", <<0, 1>>),
    Line("IMM", <<0, 0, 255>>),
    Line("IMM", <<1, 0, 42>>),
    Line("PLD", <<0, 0>>),
    Line("PLD", <<1, 2>>),
    Line("PST", <<0, 0>>),
    Line("PST", <<1, 3>>),
    Line("SOP", <<0, 0>>),
    Line("SOP", <<1, 2>>),
    Line("ADD", <<0, 1>>),
    Line("RET", <<>>) }

StraightPrograms ==
  { <<a>> : a \in BasicLines } \cup
  { <<a, b>> : a \in BasicLines, b \in BasicLines }

\* Two pushes followed by two pops, into the register pushed from and into
\* another one.
StackPrograms ==
  { << Line("IMM", <<1, 0, 42>>), Line("SOP", <<1, 0>>), Line("SOP", <<0, 0>>),
       Line("SOP", <<d, 2>>), Line("SOP", <<3, 2>>) >> : d \in {1, 2} }

\* Two values written to one output port and one to another, and two reads
\* of one input port, in the shape of the PST and PLD tests.
PortPrograms ==
  { << Line("IMM", <<0, 0, 255>>), Line("PST", <<0, 0>>),
       Line("IMM", <<0, 0, 42>>), Line("PST", <<0, 0>>),
       Line("PST", <<0, 3>>) >>,
    << Line("PLD", <<0, 1>>), Line("PLD", <<1, 1>>), Line("PST", <<1, 2>>) >> }

Programs ==
  ForwardBranchPrograms \cup BackwardBranchPrograms \cup StraightPrograms
    \cup StackPrograms \cup PortPrograms

----------------------------------------------------------------------------
(* ARPUEmulator *)

\* (n >> k) & 1
isBitSet(n, k) == (n \div (2 ^ k)) % 2 = 1

getFlags == <<ZF, COUTF, MSBF, LSBF>>

\* asmLines.findIndex(l => l.getOffsetInBytes() === offset): first match, -1
\* when there is none.
findIndex(lines, offset) ==
  IF \E i \in 1..Len(lines) : getOffsetInBytes(lines[i]) = offset
  THEN (CHOOSE i \in 1..Len(lines) :
          /\ getOffsetInBytes(lines[i]) = offset
          /\ \A j \in 1..(i - 1) : getOffsetInBytes(lines[j]) # offset) - 1
  ELSE -1

\* defaultARPUEmulatorState(asmCode), asmCode assembling to the program.
defaultARPUEmulatorState(program) ==
  /\ asmLines = compileIntermediateRepresentation(program)
  /\ PMEM = IRToMachineCode([i \in 1..Len(program) |-> asAsmLine(program[i])])
  /\ lineIndex = 0
  /\ registers = [i \in 0..3 |-> 0]
  /\ PC = 0
  /\ ZF = FALSE
  /\ COUTF = FALSE
  /\ MSBF = FALSE
  /\ LSBF = FALSE
  /\ RAM = [i \in 0..(RamCells - 1) |-> 0]
  /\ stack = <<>>
  /\ inputPorts = [i \in 0..3 |-> 0]
  /\ outputPorts = [i \in 0..3 |-> 0]
  /\ isWaitingPortInput = FALSE
  /\ cycle = 0
  /\ lastCall = <<"none">>
  /\ thrown = "none"

Init == \E program \in Programs : defaultARPUEmulatorState(program)

\* Variant of throw that has already counted the cycle when it throws.
throw_afterCounting(error) ==
  /\ thrown' = error
  /\ cycle' = cycle + 1
  /\ UNCHANGED <<asmLines, PMEM, lineIndex, registers, PC, flagVars, RAM, stack,
                 inputPorts, outputPorts, isWaitingPortInput>>

\* A call that throws before any assignment.
throw(error) ==
  /\ thrown' = error
  /\ UNCHANGED state

increment(operands) ==
  LET operand1Value == toInt(operands, 0)
      incremented == registers[operand1Value] + 1
  IN /\ registers' = [registers EXCEPT ![operand1Value] =
                        IF incremented >= WORD_SIZE THEN 0 ELSE incremented]
     /\ PC' = PC + 1
     /\ lineIndex' = lineIndex + 1
     /\ cycle' = cycle + 1
     /\ UNCHANGED <<asmLines, PMEM, flagVars, RAM, stack, inputPorts, outputPorts,
                    isWaitingPortInput>>

\* Variant of loadImmediate that advances PC by one byte only.
loadImmediate_singleByte(operands) ==
  LET destinationRegisterIndex == toInt(operands, 0)
      immediate == toInt(operands, 2)
  IN /\ registers' = [registers EXCEPT ![destinationRegisterIndex] = immediate]
     /\ PC' = PC + 1
     /\ lineIndex' = lineIndex + 1
     /\ cycle' = cycle + 1
     /\ UNCHANGED <<asmLines, PMEM, flagVars, RAM, stack, inputPorts, outputPorts,
                    isWaitingPortInput>>

loadImmediate(operands) ==
  LET destinationRegisterIndex == toInt(operands, 0)
      immediate == toInt(operands, 2)
  IN /\ registers' = [registers EXCEPT ![destinationRegisterIndex] = immediate]
     /\ PC' = PC + 2
     /\ lineIndex' = lineIndex + 1
     /\ cycle' = cycle + 1
     /\ UNCHANGED <<asmLines, PMEM, flagVars, RAM, stack, inputPorts, outputPorts,
                    isWaitingPortInput>>

\* Variant of portLoad that also counts a cycle when suspending.
portLoad_countsCycle ==
  /\ isWaitingPortInput' = TRUE
  /\ cycle' = cycle + 1
  /\ UNCHANGED <<asmLines, PMEM, lineIndex, registers, PC, flagVars, RAM, stack,
                 inputPorts, outputPorts>>

\* Variant of portLoad that moves on to the next record when it suspends.
portLoad_advances ==
  /\ isWaitingPortInput' = TRUE
  /\ PC' = PC + 1
  /\ lineIndex' = lineIndex + 1
  /\ UNCHANGED <<asmLines, PMEM, registers, flagVars, RAM, stack, inputPorts,
                 outputPorts, cycle>>

portLoad ==
  /\ isWaitingPortInput' = TRUE
  /\ UNCHANGED <<asmLines, PMEM, lineIndex, registers, PC, flagVars, RAM, stack,
                 inputPorts, outputPorts, cycle>>

\* Variant of portStore that takes the register index for the port index.
portStore_indexedBySource(operands) ==
  LET sourceRegisterIndex == toInt(operands, 0)
  IN /\ outputPorts' = [outputPorts EXCEPT ![sourceRegisterIndex] =
                          registers[sourceRegisterIndex]]
     /\ PC' = PC + 1
     /\ lineIndex' = lineIndex + 1
     /\ cycle' = cycle + 1
     /\ UNCHANGED <<asmLines, PMEM, registers, flagVars, RAM, stack, inputPorts,
                    isWaitingPortInput>>

portStore(operands) ==
  LET sourceRegisterIndex == toInt(operands, 0)
      portIndex == toInt(operands, 1)
  IN /\ outputPorts' = [outputPorts EXCEPT ![portIndex] =
                          registers[sourceRegisterIndex]]
     /\ PC' = PC + 1
     /\ lineIndex' = lineIndex + 1
     /\ cycle' = cycle + 1
     /\ UNCHANGED <<asmLines, PMEM, registers, flagVars, RAM, stack, inputPorts,
                    isWaitingPortInput>>

\* Variant of shouldJump with the negate comparison inverted.
shouldJump_invertedNegate(operands) ==
  LET condition == toInt(operands, 0)
      flags == toInt(operands, 1)
      isConditional == isBitSet(flags, 0)
      isNegate == isBitSet(flags, 1)
      flag == getFlags[condition + 1]
  IN IF ~isConditional THEN TRUE ELSE flag = isNegate

shouldJump(operands) ==
  LET condition == toInt(operands, 0)
      flags == toInt(operands, 1)
      isConditional == isBitSet(flags, 0)
      isNegate == isBitSet(flags, 1)
      flag == getFlags[condition + 1]
  IN IF ~isConditional THEN TRUE ELSE flag # isNegate

\* Variant of branch that retargets PC but not lineIndex.
branch_keepsLineIndex(operands) ==
  LET destinationOffset == toInt(operands, 2)
  IN /\ IF shouldJump(operands)
        THEN /\ PC' = destinationOffset
             /\ lineIndex' = lineIndex
        ELSE /\ PC' = PC + 2
             /\ lineIndex' = lineIndex + 1
     /\ cycle' = cycle + 1
     /\ UNCHANGED <<asmLines, PMEM, registers, flagVars, RAM, stack, inputPorts,
                    outputPorts, isWaitingPortInput>>

\* Variant of branch that stops on a branch to its own record.
branch_stopsOnSelfLoop(operands) ==
  LET destinationOffset == toInt(operands, 2)
      jumpToIndex == findIndex(asmLines, destinationOffset)
  IN IF shouldJump(operands) /\ jumpToIndex = lineIndex
     THEN UNCHANGED state
     ELSE /\ IF shouldJump(operands)
             THEN /\ PC' = destinationOffset
                  /\ lineIndex' = jumpToIndex
             ELSE /\ PC' = PC + 2
                  /\ lineIndex' = lineIndex + 1
          /\ cycle' = cycle + 1
          /\ UNCHANGED <<asmLines, PMEM, registers, flagVars, RAM, stack,
                         inputPorts, outputPorts, isWaitingPortInput>>

\* Variant of branch that clears the flag it tested when the jump is taken.
branch_clearsTestedFlag(operands) ==
  LET destinationOffset == toInt(operands, 2)
      condition == toInt(operands, 0)
      tested(k) == isBitSet(toInt(operands, 1), 0) /\ condition = k
  IN /\ IF shouldJump(operands)
        THEN /\ PC' = destinationOffset
             /\ lineIndex' = findIndex(asmLines, destinationOffset)
             /\ ZF' = (ZF /\ ~tested(0))
             /\ COUTF' = (COUTF /\ ~tested(1))
             /\ MSBF' = (MSBF /\ ~tested(2))
             /\ LSBF' = (LSBF /\ ~tested(3))
        ELSE /\ PC' = PC + 2
             /\ lineIndex' = lineIndex + 1
             /\ UNCHANGED flagVars
     /\ cycle' = cycle + 1
     /\ UNCHANGED <<asmLines, PMEM, registers, RAM, stack, inputPorts,
                    outputPorts, isWaitingPortInput>>

branch(operands) ==
  LET destinationOffset == toInt(operands, 2)
  IN /\ IF shouldJump(operands)
        THEN /\ PC' = destinationOffset
             /\ lineIndex' = findIndex(asmLines, destinationOffset)
        ELSE /\ PC' = PC + 2
             /\ lineIndex' = lineIndex + 1
     /\ cycle' = cycle + 1
     /\ UNCHANGED <<asmLines, PMEM, registers, flagVars, RAM, stack, inputPorts,
                    outputPorts, isWaitingPortInput>>

\* Variant of stackOperation that pops the oldest value instead of the newest.
stackOperation_popsOldest(operands) ==
  LET isPush == toInt(operands, 1) = 0
      index == toInt(operands, 0)
  IN /\ IF isPush
        THEN /\ stack' = Append(stack, registers[index])
             /\ UNCHANGED registers
        ELSE /\ stack' = IF stack = <<>> THEN stack ELSE Tail(stack)
             /\ registers' = [registers EXCEPT ![index] =
                                IF stack = <<>> THEN 0 ELSE Head(stack)]
     /\ PC' = PC + 1
     /\ lineIndex' = lineIndex + 1
     /\ cycle' = cycle + 1
     /\ UNCHANGED <<asmLines, PMEM, flagVars, RAM, inputPorts, outputPorts,
                    isWaitingPortInput>>

stackOperation(operands) ==
  LET isPush == toInt(operands, 1) = 0
      index == toInt(operands, 0)
  IN /\ IF isPush
        THEN /\ stack' = Append(stack, registers[index])
             /\ UNCHANGED registers
        ELSE /\ stack' = IF stack = <<>> THEN stack
                         ELSE SubSeq(stack, 1, Len(stack) - 1)
             /\ registers' = [registers EXCEPT ![index] =
                                IF stack = <<>> THEN 0
                                ELSE stack[Len(stack)]]
     /\ PC' = PC + 1
     /\ lineIndex' = lineIndex + 1
     /\ cycle' = cycle + 1
     /\ UNCHANGED <<asmLines, PMEM, flagVars, RAM, inputPorts, outputPorts,
                    isWaitingPortInput>>

\* The keys of the handlers table.
handlers == {"INC", "IMM", "PLD", "PST", "BRA", "SOP"}

\* asmLines[lineIndex] is defined.
hasLine(index) == index >= 0 /\ index < Len(asmLines)

\* this.handlers[mnemonic](instruction.getOperands()); reading a property of
\* undefined (no record at lineIndex) and calling undefined (no handler for
\* the mnemonic) both throw a TypeError before any assignment.
dispatch ==
  IF ~hasLine(lineIndex) THEN throw("TypeError")
  ELSE LET instruction == asmLines[lineIndex + 1]
           mnemonic == instruction.mnemonic
           operands == instruction.operands
       IN IF mnemonic \notin handlers THEN throw("TypeError")
          ELSE /\ thrown' = "none"
               /\ CASE mnemonic = "INC" -> increment(operands)
                    [] mnemonic = "IMM" -> loadImmediate(operands)
                    [] mnemonic = "PLD" -> portLoad
                    [] mnemonic = "PST" -> portStore(operands)
                    [] mnemonic = "BRA" -> branch(operands)
                    [] mnemonic = "SOP" -> stackOperation(operands)

\* Variant of step without the pending-read check.
step_noPendingCheck ==
  /\ cycle < MaxCycle
  /\ lastCall' = <<"step">>
  /\ dispatch

step ==
  /\ cycle < MaxCycle
  /\ lastCall' = <<"step">>
  /\ IF isWaitingPortInput
     THEN throw("Cannot make a step while waiting for the port input")
     ELSE dispatch

\* Variant of portInputWrite that does not record the value in inputPorts.
portInputWrite_noPortSlot(asmLine, value) ==
  LET destinationRegisterIndex == toInt(asmLine.operands, 0)
  IN /\ registers' = [registers EXCEPT ![destinationRegisterIndex] = value]
     /\ PC' = PC + 1
     /\ lineIndex' = lineIndex + 1
     /\ isWaitingPortInput' = FALSE
     /\ cycle' = cycle + 1
     /\ UNCHANGED <<asmLines, PMEM, flagVars, RAM, stack, inputPorts, outputPorts>>

\* Variant of portInputWrite that leaves the read pending.
portInputWrite_keepsPending(asmLine, value) ==
  LET destinationRegisterIndex == toInt(asmLine.operands, 0)
      portIndex == toInt(asmLine.operands, 1)
  IN /\ registers' = [registers EXCEPT ![destinationRegisterIndex] = value]
     /\ inputPorts' = [inputPorts EXCEPT ![portIndex] = value]
     /\ PC' = PC + 1
     /\ lineIndex' = lineIndex + 1
     /\ cycle' = cycle + 1
     /\ UNCHANGED <<asmLines, PMEM, flagVars, RAM, stack, outputPorts,
                    isWaitingPortInput>>

\* Variant of the assignments of portInput that writes the value into the
\* program memory at PC, not into the input port.
portInputWrite_storesInImage(asmLine, value) ==
  LET destinationRegisterIndex == toInt(asmLine.operands, 0)
  IN /\ registers' = [registers EXCEPT ![destinationRegisterIndex] = value]
     /\ PMEM' = [PMEM EXCEPT ![PC + 1] = value]
     /\ PC' = PC + 1
     /\ lineIndex' = lineIndex + 1
     /\ isWaitingPortInput' = FALSE
     /\ cycle' = cycle + 1
     /\ UNCHANGED <<asmLines, flagVars, RAM, stack, inputPorts, outputPorts>>

\* The assignments of portInput once both checks have passed.
portInputWrite(asmLine, value) ==
  LET destinationRegisterIndex == toInt(asmLine.operands, 0)
      portIndex == toInt(asmLine.operands, 1)
  IN /\ registers' = [registers EXCEPT ![destinationRegisterIndex] = value]
     /\ inputPorts' = [inputPorts EXCEPT ![portIndex] = value]
     /\ PC' = PC + 1
     /\ lineIndex' = lineIndex + 1
     /\ isWaitingPortInput' = FALSE
     /\ cycle' = cycle + 1
     /\ UNCHANGED <<asmLines, PMEM, flagVars, RAM, stack, outputPorts>>

\* The body of portInput after the pending check.
portInputPending(value) ==
  IF ~hasLine(lineIndex) THEN throw("TypeError")
  ELSE LET asmLine == asmLines[lineIndex + 1]
       IN IF asmLine.mnemonic # "PLD"
          THEN throw("Illegal state: current instruction is not PLD but we are waiting for port input")
          ELSE /\ thrown' = "none"
               /\ portInputWrite(asmLine, value)

\* Variant of portInput without the pending-read check.
portInput_noPendingCheck(value) ==
  /\ cycle < MaxCycle
  /\ lastCall' = <<"portInput", value>>
  /\ portInputPending(value)

portInput(value) ==
  /\ cycle < MaxCycle
  /\ lastCall' = <<"portInput", value>>
  /\ IF ~isWaitingPortInput
     THEN throw("Cannot input to port while not waiting for port input")
     ELSE portInputPending(value)

\* getState() hands out the live state object; callers (the tests) assign the
\* flags through it before stepping: emulator.getState().ZF = true.
getState(zf, coutf, msbf, lsbf) ==
  /\ ZF' = zf
  /\ COUTF' = coutf
  /\ MSBF' = msbf
  /\ LSBF' = lsbf
  /\ lastCall' = <<"getState">>
  /\ thrown' = "none"
  /\ UNCHANGED <<asmLines, PMEM, lineIndex, registers, PC, RAM, stack, inputPorts,
                 outputPorts, isWaitingPortInput, cycle>>

Next ==
  \/ step
  \/ \E value \in PortValues : portInput(value)
  \/ \E zf, coutf, msbf, lsbf \in BOOLEAN : getState(zf, coutf, msbf, lsbf)

Spec == Init /\ [][Next]_vars

----------------------------------------------------------------------------
(* The handlers the tests exercise and the emulator above lacks: ADD, SUB,  *)
(* MOV, STR, LOD, CAL and RET, after the instruction table of the           *)
(* specification (section 4.4) and the expectations of the tests.           *)

\* Operand values of the ALU programs: both ends and the middle of the byte
\* range.
AluValues == {0, 1, 3, 127, 128, 255}

AluPrograms ==
  { << Line("IMM", <<0, 0, a>>), Line("IMM", <<1, 0, b>>),
       Line(m, <<0, 1>>) >> :
      a \in AluValues, b \in AluValues, m \in {"ADD", "SUB"} } \cup
  { << Line("IMM", <<0, 0, a>>), Line(m, <<0, 0>>) >> :
      a \in AluValues, m \in {"ADD", "SUB"} }

CallPrograms ==
  { << Line("CAL", <<0, 0, t>>), Line("RET", <<>>) >> : t \in 0..MaxTarget }
    \cup
  { << Line("INC", <<0, 1>>), Line("CAL", <<0, 0, t>>), Line("PST", <<0, 0>>),
       Line("RET", <<>>) >> : t \in 0..MaxTarget }
    \cup
  { << Line("CAL", <<0, 0, 2>>), Line("IMM", <<0, 0, 0>>) >> }
    \cup
  { << Line("CAL", <<0, 0, 2>>), Line("RET", <<r>>) >> : r \in {0, 1} }
    \cup
  \* a callee with one push and one pop, called on an empty stack
  { << Line("CAL", <<0, 0, 3>>), Line("PST", <<0, 0>>), Line("SOP", <<0, 0>>),
       Line("SOP", <<1, 2>>), Line("RET", <<>>) >> }
    \cup
  \* a call made with one value already on the stack
  { << Line("SOP", <<0, 0>>), Line("CAL", <<0, 0, 3>>), Line("RET", <<>>) >> }

MemoryPrograms ==
  { << Line("IMM", <<0, 0, 42>>), Line("STR", <<0, 2>>),
       Line("LOD", <<3, 2>>), Line("MOV", <<1, 3>>) >>,
    << Line("INC", <<2, 2>>), Line("STR", <<2, 2>>), Line("LOD", <<1, 2>>),
       Line("MOV", <<3, 1>>) >>,
    << Line("MOV", <<0, 1>>) >>,
    << Line("LOD", <<0, 1>>) >>,
    << Line("STR", <<0, 1>>) >> }

ProgramsExt ==
  Programs \cup AluPrograms \cup CallPrograms \cup MemoryPrograms

\* ADD: dest <- dest + src (mod 256); ZF, COUTF (sum >= 256), MSBF, LSBF.
add(operands) ==
  LET dest == toInt(operands, 0)
      source == toInt(operands, 1)
      sum == registers[dest] + registers[source]
      result == sum % WORD_SIZE
  IN /\ registers' = [registers EXCEPT ![dest] = result]
     /\ ZF' = (result = 0)
     /\ COUTF' = (sum >= WORD_SIZE)
     /\ MSBF' = isBitSet(result, 7)
     /\ LSBF' = isBitSet(result, 0)
     /\ PC' = PC + 1
     /\ lineIndex' = lineIndex + 1
     /\ cycle' = cycle + 1
     /\ UNCHANGED <<asmLines, PMEM, RAM, stack, inputPorts, outputPorts,
                    isWaitingPortInput>>

\* Variant of subtract whose COUTF tells that a borrow occurred.
subtract_flagsBorrow(operands) ==
  LET dest == toInt(operands, 0)
      source == toInt(operands, 1)
      difference == registers[dest] - registers[source]
      result == difference % WORD_SIZE
  IN /\ registers' = [registers EXCEPT ![dest] = result]
     /\ ZF' = (result = 0)
     /\ COUTF' = (registers[dest] < registers[source])
     /\ MSBF' = isBitSet(result, 7)
     /\ LSBF' = isBitSet(result, 0)
     /\ PC' = PC + 1
     /\ lineIndex' = lineIndex + 1
     /\ cycle' = cycle + 1
     /\ UNCHANGED <<asmLines, PMEM, RAM, stack, inputPorts, outputPorts,
                    isWaitingPortInput>>

\* SUB: dest <- dest - src (mod 256); ZF, COUTF (dest >= src, no borrow),
\* MSBF, LSBF.
subtract(operands) ==
  LET dest == toInt(operands, 0)
      source == toInt(operands, 1)
      difference == registers[dest] - registers[source]
      result == difference % WORD_SIZE
  IN /\ registers' = [registers EXCEPT ![dest] = result]
     /\ ZF' = (result = 0)
     /\ COUTF' = (registers[dest] >= registers[source])
     /\ MSBF' = isBitSet(result, 7)
     /\ LSBF' = isBitSet(result, 0)
     /\ PC' = PC + 1
     /\ lineIndex' = lineIndex + 1
     /\ cycle' = cycle + 1
     /\ UNCHANGED <<asmLines, PMEM, RAM, stack, inputPorts, outputPorts,
                    isWaitingPortInput>>

\* MOV: dest <- src.
move(operands) ==
  LET dest == toInt(operands, 0)
      source == toInt(operands, 1)
  IN /\ registers' = [registers EXCEPT ![dest] = registers[source]]
     /\ PC' = PC + 1
     /\ lineIndex' = lineIndex + 1
     /\ cycle' = cycle + 1
     /\ UNCHANGED <<asmLines, PMEM, flagVars, RAM, stack, inputPorts, outputPorts,
                    isWaitingPortInput>>

\* STR: RAM[src] <- dest.
store(operands) ==
  LET dest == toInt(operands, 0)
      source == toInt(operands, 1)
  IN /\ RAM' = [RAM EXCEPT ![registers[source]] = registers[dest]]
     /\ PC' = PC + 1
     /\ lineIndex' = lineIndex + 1
     /\ cycle' = cycle + 1
     /\ UNCHANGED <<asmLines, PMEM, registers, flagVars, stack, inputPorts,
                    outputPorts, isWaitingPortInput>>

\* LOD: dest <- RAM[src].
load(operands) ==
  LET dest == toInt(operands, 0)
      source == toInt(operands, 1)
  IN /\ registers' = [registers EXCEPT ![dest] = RAM[registers[source]]]
     /\ PC' = PC + 1
     /\ lineIndex' = lineIndex + 1
     /\ cycle' = cycle + 1
     /\ UNCHANGED <<asmLines, PMEM, flagVars, RAM, stack, inputPorts, outputPorts,
                    isWaitingPortInput>>

\* Variant of call that pushes the offset of the CAL record itself.
call_pushesOwnOffset(operands) ==
  LET destinationOffset == toInt(operands, 2)
      instruction == asmLines[lineIndex + 1]
  IN /\ stack' = Append(stack, getOffsetInBytes(instruction))
     /\ PC' = destinationOffset
     /\ lineIndex' = findIndex(asmLines, destinationOffset)
     /\ cycle' = cycle + 2
     /\ UNCHANGED <<asmLines, PMEM, registers, flagVars, RAM, inputPorts,
                    outputPorts, isWaitingPortInput>>

\* CAL: push the offset immediately after this record, then jump to the
\* literal target; the record is two bytes long.
call(operands) ==
  LET destinationOffset == toInt(operands, 2)
      instruction == asmLines[lineIndex + 1]
      returnAddress == getOffsetInBytes(instruction) +
                         getSizeInBytes(instruction)
  IN /\ stack' = Append(stack, returnAddress)
     /\ PC' = destinationOffset
     /\ lineIndex' = findIndex(asmLines, destinationOffset)
     /\ cycle' = cycle + 2
     /\ UNCHANGED <<asmLines, PMEM, registers, flagVars, RAM, inputPorts,
                    outputPorts, isWaitingPortInput>>

\* Variant of return that reads the return address and leaves it on the stack.
return_keepsStack(operands) ==
  IF Len(operands) > 0 /\ toInt(operands, 0) = 1
  THEN UNCHANGED state
  ELSE LET returnAddress == stack[Len(stack)]
       IN /\ PC' = returnAddress
          /\ lineIndex' = findIndex(asmLines, returnAddress)
          /\ cycle' = cycle + 1
          /\ UNCHANGED <<asmLines, PMEM, registers, flagVars, RAM, stack,
                         inputPorts, outputPorts, isWaitingPortInput>>

\* RET: with operand 1 the record only signals halt; otherwise pop the return
\* address from the stack into PC and lineIndex.
return(operands) ==
  IF Len(operands) > 0 /\ toInt(operands, 0) = 1
  THEN UNCHANGED state
  ELSE LET returnAddress == stack[Len(stack)]
       IN /\ stack' = SubSeq(stack, 1, Len(stack) - 1)
          /\ PC' = returnAddress
          /\ lineIndex' = findIndex(asmLines, returnAddress)
          /\ cycle' = cycle + 1
          /\ UNCHANGED <<asmLines, PMEM, registers, flagVars, RAM, inputPorts,
                         outputPorts, isWaitingPortInput>>

\* RET pops, and the stack is empty.
returnUnderflows(instruction) ==
  /\ instruction.mnemonic = "RET"
  /\ ~(Len(instruction.operands) > 0 /\ toInt(instruction.operands, 0) = 1)
  /\ stack = <<>>

handlersExt == handlers \cup {"ADD", "SUB", "MOV", "STR", "LOD", "CAL", "RET"}

dispatchExt ==
  IF ~hasLine(lineIndex) THEN throw("TypeError")
  ELSE LET instruction == asmLines[lineIndex + 1]
           mnemonic == instruction.mnemonic
           operands == instruction.operands
       IN IF mnemonic \in handlers THEN dispatch
          ELSE IF mnemonic \notin handlersExt THEN throw("TypeError")
          ELSE IF returnUnderflows(instruction)
          THEN throw("Popping from empty stack")
          ELSE /\ thrown' = "none"
               /\ CASE mnemonic = "ADD" -> add(operands)
                    [] mnemonic = "SUB" -> subtract(operands)
                    [] mnemonic = "MOV" -> move(operands)
                    [] mnemonic = "STR" -> store(operands)
                    [] mnemonic = "LOD" -> load(operands)
                    [] mnemonic = "CAL" -> call(operands)
                    [] mnemonic = "RET" -> return(operands)

stepExt ==
  /\ cycle < MaxCycle
  /\ lastCall' = <<"step">>
  /\ IF isWaitingPortInput
     THEN throw("Cannot make a step while waiting for the port input")
     ELSE dispatchExt

InitExt == \E program \in ProgramsExt : defaultARPUEmulatorState(program)

NextExt ==
  \/ stepExt
  \/ \E value \in PortValues : portInput(value)
  \/ \E zf, coutf, msbf, lsbf \in BOOLEAN : getState(zf, coutf, msbf, lsbf)

SpecExt == InitExt /\ [][NextExt]_vars

----------------------------------------------------------------------------
(* Seeding the RAM: setRAM(binaryData), after the runtime API of the        *)
(* specification (section 6) and the tests 'set RAM'.                       *)

\* Byte sequences handed to setRAM: every length up to one more than the RAM.
RamData ==
  UNION { [1..n -> {1, 42}] : n \in 0..(RamCells + 1) }

tooLong(binaryData) ==
  "Binary data argument is \"" \o ToString(Len(binaryData)) \o
  "\" bytes long while max RAM size is " \o ToString(RamCells)

\* Variant of setRAM that writes the data over the cells as they are.
setRAM_overlaysPrior(binaryData) ==
  /\ lastCall' = <<"setRAM", binaryData>>
  /\ IF Len(binaryData) > RamCells
     THEN throw(tooLong(binaryData))
     ELSE /\ thrown' = "none"
          /\ RAM' = [i \in 0..(RamCells - 1) |->
                       IF i < Len(binaryData) THEN binaryData[i + 1]
                       ELSE RAM[i]]
          /\ UNCHANGED <<asmLines, PMEM, lineIndex, registers, PC, flagVars, stack,
                         inputPorts, outputPorts, isWaitingPortInput, cycle>>

\* setRAM: a fresh zero-filled RAM of the fixed size with the data at its
\* start; data longer than the RAM is refused.
setRAM(binaryData) ==
  /\ lastCall' = <<"setRAM", binaryData>>
  /\ IF Len(binaryData) > RamCells
     THEN throw(tooLong(binaryData))
     ELSE /\ thrown' = "none"
          /\ RAM' = [i \in 0..(RamCells - 1) |->
                       IF i < Len(binaryData) THEN binaryData[i + 1] ELSE 0]
          /\ UNCHANGED <<asmLines, PMEM, lineIndex, registers, PC, flagVars, stack,
                         inputPorts, outputPorts, isWaitingPortInput, cycle>>

InitRam == \E program \in MemoryPrograms : defaultARPUEmulatorState(program)

NextRam ==
  \/ stepExt
  \/ \E binaryData \in RamData : setRAM(binaryData)

SpecRam == InitRam /\ [][NextRam]_vars

----------------------------------------------------------------------------
(* The emulator constructed from the assembler's records, and the queries   *)
(* made on them                                                             *)

\* The emulator constructed from a source with labels.
InitAsm ==
  \E source \in Sources :
    /\ asmLines = assemble(source)
    /\ PMEM = IRToMachineCode(assemble(source))
    /\ lineIndex = 0
    /\ registers = [i \in 0..3 |-> 0]
    /\ PC = 0
    /\ ZF = FALSE
    /\ COUTF = FALSE
    /\ MSBF = FALSE
    /\ LSBF = FALSE
    /\ RAM = [i \in 0..(RamCells - 1) |-> 0]
    /\ stack = <<>>
    /\ inputPorts = [i \in 0..3 |-> 0]
    /\ outputPorts = [i \in 0..3 |-> 0]
    /\ isWaitingPortInput = FALSE
    /\ cycle = 0
    /\ lastCall = <<"none">>
    /\ thrown = "none"

\* asmLines[index].getBytes() and asmLines[index].isHalt(): queries, the
\* result of which is kept for the properties.
callGetBytes(index) ==
  /\ lastCall' = <<"getBytes", index, getBytes(asmLines[index + 1])>>
  /\ thrown' = "none"
  /\ UNCHANGED state

\* operands[2] of a BRA record with fewer than three operands is undefined,
\* and the call of getLabel() on it throws.
callIsHalt(index) ==
  LET line == asmLines[index + 1]
  IN /\ IF line.mnemonic = "BRA" /\ Len(line.operands) < 3
        THEN /\ lastCall' = <<"isHalt", index>>
             /\ thrown' = "TypeError"
        ELSE /\ lastCall' = <<"isHalt", index, isHalt(line)>>
             /\ thrown' = "none"
     /\ UNCHANGED state

NextAsm ==
  \/ \E index \in 0..(Len(asmLines) - 1) : callGetBytes(index)
  \/ \E index \in 0..(Len(asmLines) - 1) : callIsHalt(index)

SpecAsm == InitAsm /\ [][NextAsm]_vars

----------------------------------------------------------------------------
(* Vocabulary of the properties *)

StepWhilePending == "Cannot make a step while waiting for the port input"
InputWhileNotPending == "Cannot input to port while not waiting for port input"

\* The call that has just returned was a step() / a portInput() that did
\* not throw.
completedStep == lastCall[1] = "step" /\ thrown = "none"
completedPortInput == lastCall[1] = "portInput" /\ thrown = "none"

\* The record at lineIndex exists and carries the mnemonic.
currentIs(mnemonic) ==
  hasLine(lineIndex) /\ asmLines[lineIndex + 1].mnemonic = mnemonic

currentOperand(k) == asmLines[lineIndex + 1].operands[k + 1]

\* Byte size of the assembled program.
programSize ==
  getOffsetInBytes(asmLines[Len(asmLines)]) +
    getSizeInBytes(asmLines[Len(asmLines)])

\* Control byte of a BRA: bit 0 is the conditional bit, bit 1 the negate bit.
conditionalBit(control) == control % 2 = 1
negateBit(control) == (control \div 2) % 2 = 1

\* The flag a BRA condition operand selects: 0=ZF, 1=COUTF, 2=MSBF, 3=LSBF.
selectedFlag(cond) ==
  CASE cond = 0 -> ZF
    [] cond = 1 -> COUTF
    [] cond = 2 -> MSBF
    [] cond = 3 -> LSBF

----------------------------------------------------------------------------
\* C1 as stated: after every step() or portInput() call that completes,
\* lineIndex designates a record of asmLines and PC equals that record's byte
\* offset.
C1_Lockstep ==
  (completedStep \/ completedPortInput) =>
    /\ hasLine(lineIndex)
    /\ PC = getOffsetInBytes(asmLines[lineIndex + 1])

\* C1 (amended): after every step() or portInput() call that completes,
\* either lineIndex designates a record and PC equals that record's byte
\* offset, or lineIndex is the number of records and PC is the byte size of
\* the whole program (execution fell off the last record), or lineIndex is -1
\* and PC is an offset at which no record starts (a taken branch to a literal
\* that is not a record offset).
C1_LockstepOrOutside ==
  (completedStep \/ completedPortInput) =>
    \/ /\ hasLine(lineIndex)
       /\ PC = getOffsetInBytes(asmLines[lineIndex + 1])
    \/ /\ lineIndex = Len(asmLines)
       /\ PC = programSize
    \/ /\ lineIndex = -1
       /\ \A i \in 1..Len(asmLines) : getOffsetInBytes(asmLines[i]) # PC

\* A conditional branch on ZF has just been taken to the record at offset 4.
C1_Witness ==
  /\ completedStep
  /\ asmLines[1].mnemonic = "BRA"
  /\ cycle = 1
  /\ PC = 4
  /\ lineIndex = 2

\* C2: while a port read is pending every step() throws and leaves the state
\* as it was, and the pending flag is cleared only by a portInput() that
\* succeeds.
C2_StepFailsWhilePending ==
  /\ [][(isWaitingPortInput /\ lastCall'[1] = "step") =>
          (thrown' = StepWhilePending /\ UNCHANGED state)]_vars
  /\ [][(isWaitingPortInput /\ ~isWaitingPortInput') =>
          (lastCall'[1] = "portInput" /\ thrown' = "none")]_vars

\* A step() has just been refused because a read is pending.
C2_Witness ==
  isWaitingPortInput /\ lastCall[1] = "step" /\ thrown = StepWhilePending

\* C3: portInput() throws whenever no read is pending, leaving the state as
\* it was; a successful portInput() consumes the pending read, so that the
\* next portInput() is one of those.
C3_PortInputFailsWhenNotPending ==
  /\ [][(~isWaitingPortInput /\ lastCall'[1] = "portInput") =>
          (thrown' = InputWhileNotPending /\ UNCHANGED state)]_vars
  /\ [][(lastCall'[1] = "portInput" /\ thrown' = "none") =>
          ~isWaitingPortInput']_vars

\* A second portInput() after the read on port 0 was resumed with 2 has just
\* been refused.
C3_Witness ==
  /\ ~isWaitingPortInput
  /\ lastCall[1] = "portInput"
  /\ thrown = InputWhileNotPending
  /\ inputPorts[0] = 2
  /\ cycle = 1

\* C4: a step() on a PLD record sets isWaitingPortInput and changes nothing
\* else.
C4_PortLoadOnlySuspends ==
  [][(currentIs("PLD") /\ lastCall'[1] = "step" /\ thrown' = "none") =>
       /\ isWaitingPortInput'
       /\ UNCHANGED <<PC, lineIndex, cycle, registers, ZF, COUTF, MSBF, LSBF,
                      RAM, stack, inputPorts, outputPorts>>]_vars

\* The step() on PLD has just suspended the emulator.
C4_Witness ==
  completedStep /\ currentIs("PLD") /\ isWaitingPortInput

\* C5: a successful portInput(value) on a pending PLD dest port writes value
\* to registers[dest] and inputPorts[port] only, clears the pending flag and
\* advances PC, lineIndex and cycle by 1.
C5_PortInputEffect ==
  [][(lastCall'[1] = "portInput" /\ thrown' = "none") =>
       /\ isWaitingPortInput /\ currentIs("PLD")
       /\ LET dest == currentOperand(0)
              port == currentOperand(1)
              value == lastCall'[2]
          IN /\ registers'[dest] = value
             /\ inputPorts'[port] = value
             /\ \A r \in (0..3) \ {dest} : registers'[r] = registers[r]
             /\ \A q \in (0..3) \ {port} : inputPorts'[q] = inputPorts[q]
       /\ ~isWaitingPortInput'
       /\ PC' = PC + 1
       /\ lineIndex' = lineIndex + 1
       /\ cycle' = cycle + 1
       /\ UNCHANGED <<outputPorts, ZF, COUTF, MSBF, LSBF, RAM, stack>>]_vars

\* PLD R2 2 has just been resumed with 255 after an earlier instruction.
C5_Witness ==
  /\ completedPortInput
  /\ lastCall[2] = 255
  /\ registers[1] = 255
  /\ inputPorts[2] = 255
  /\ lineIndex = 2
  /\ ~isWaitingPortInput

\* C6: isWaitingPortInput is false initially, becomes true by nothing but a
\* completed step() on a PLD record and false again by nothing but a
\* successful portInput(), and each of the two has that effect.
C6_PendingExactlyBetween ==
  /\ ~isWaitingPortInput
  /\ [][(isWaitingPortInput' # isWaitingPortInput) =>
          IF isWaitingPortInput'
          THEN currentIs("PLD") /\ lastCall'[1] = "step" /\ thrown' = "none"
          ELSE lastCall'[1] = "portInput" /\ thrown' = "none"]_vars
  /\ [][(currentIs("PLD") /\ lastCall'[1] = "step" /\ thrown' = "none") =>
          isWaitingPortInput']_vars
  /\ [][(lastCall'[1] = "portInput" /\ thrown' = "none") =>
          ~isWaitingPortInput']_vars

\* A second read is pending after the first one was resumed.
C6_Witness ==
  isWaitingPortInput /\ cycle = 1 /\ lineIndex = 1

\* The step about to be taken retargets PC: a taken branch, a call or a
\* return.
retargets ==
  \/ /\ currentIs("BRA")
     /\ \/ ~conditionalBit(currentOperand(1))
        \/ selectedFlag(currentOperand(0)) # negateBit(currentOperand(1))
  \/ currentIs("CAL")
  \/ currentIs("RET")

\* C7 as stated: every completed step() that does not retarget PC increases
\* PC by getSizeInBytes() of the executed record and lineIndex by 1.
C7_AdvanceBySize ==
  [][(lastCall'[1] = "step" /\ thrown' = "none" /\ ~retargets) =>
       /\ PC' = PC + getSizeInBytes(asmLines[lineIndex + 1])
       /\ lineIndex' = lineIndex + 1]_vars

\* C7 (amended): every completed step() that does not retarget PC and is not
\* on a PLD record increases PC by getSizeInBytes() of the executed record
\* and lineIndex by 1; a completed step() on a PLD record leaves PC and
\* lineIndex as they are.
C7_AdvanceBySizeExceptPortLoad ==
  [][(lastCall'[1] = "step" /\ thrown' = "none" /\ ~retargets) =>
       IF currentIs("PLD")
       THEN PC' = PC /\ lineIndex' = lineIndex
       ELSE /\ PC' = PC + getSizeInBytes(asmLines[lineIndex + 1])
            /\ lineIndex' = lineIndex + 1]_vars

\* The two-byte IMM R1 0 255 followed by a one-byte record have both been
\* stepped over.
C7_Witness ==
  /\ completedStep
  /\ asmLines[1].mnemonic = "IMM"
  /\ registers[0] = 255
  /\ lineIndex = 2
  /\ PC = 3

\* C8: cycle starts at 0, never decreases, and every completed instruction (a
\* completed step() on a record other than PLD, or a successful portInput())
\* increases it by the byte size of the executed record.
C8_CycleByRecordSize ==
  /\ cycle = 0
  /\ [][cycle' >= cycle]_vars
  /\ [][(\/ lastCall'[1] = "step" /\ thrown' = "none" /\ ~currentIs("PLD")
         \/ lastCall'[1] = "portInput" /\ thrown' = "none") =>
          cycle' = cycle + getSizeInBytes(asmLines[lineIndex + 1])]_vars

C10_ControlTwoIsConditional ==
  [][(currentIs("BRA") /\ lastCall'[1] = "step" /\ thrown' = "none") =>
       LET cond == currentOperand(0)
           control == currentOperand(1)
           target == currentOperand(2)
       IN /\ (control = 2 /\ selectedFlag(cond)) => PC' = target
          /\ (control = 2 /\ ~selectedFlag(cond)) =>
               (PC' = PC + 2 /\ lineIndex' = lineIndex + 1)
          /\ (control = 3 /\ ~selectedFlag(cond)) => PC' = target]_vars


----------------------------------------------------------------------------
\* C11: a step() on a SOP pop with the stack empty throws 'Popping from empty
\* stack' and leaves the registers, PC, lineIndex and cycle as they were.
C11_PopEmptyThrows ==
  [][(/\ ~isWaitingPortInput
      /\ currentIs("SOP")
      /\ currentOperand(1) # 0
      /\ stack = <<>>
      /\ lastCall'[1] = "step") =>
       /\ thrown' = "Popping from empty stack"
       /\ UNCHANGED <<registers, PC, lineIndex, cycle>>]_vars

\* C12: a step() or portInput() call that throws leaves every field of the
\* emulator state as it was before the call.
C12_FailureAtomicity ==
  [][(lastCall'[1] \in {"step", "portInput"} /\ thrown' # "none") =>
       UNCHANGED state]_vars

\* A step() has just thrown for want of a handler, after IMM R1 0 255 was
\* executed.
C12_Witness ==
  /\ lastCall[1] = "step"
  /\ thrown = "TypeError"
  /\ hasLine(lineIndex)
  /\ registers[0] = 255
  /\ cycle = 1
  /\ PC = 2


\* C13: in every reachable state each of the four registers holds an integer
\* in 0..255.
C13_RegistersAreBytes ==
  \A r \in 0..3 : registers[r] \in 0..(WORD_SIZE - 1)

\* The mnemonics of the instruction table.
instructionMnemonics ==
  { INSTRUCTION_MNEMONICS[i] : i \in 1..Len(INSTRUCTION_MNEMONICS) }

\* C15: with no read pending and a record of any of the 16 instruction
\* mnemonics at lineIndex, step() does not fail for lack of a handler.
C15_EveryMnemonicHasHandler ==
  [][(/\ ~isWaitingPortInput
      /\ hasLine(lineIndex)
      /\ asmLines[lineIndex + 1].mnemonic \in instructionMnemonics
      /\ lastCall'[1] = "step") =>
       thrown' # "TypeError"]_vars

\* Flags as the ALU result defines them.
zeroOf(result) == result = 0
msbOf(result) == (result \div 128) % 2 = 1
lsbOf(result) == result % 2 = 1

\* C16: a completed step() on INC dest src sets registers[dest] to
\* (registers[src] + 1) mod 256, leaves registers[src] alone when src differs
\* from dest, sets ZF, MSBF and LSBF from the result and advances PC,
\* lineIndex and cycle by 1.
C16_IncrementFromSource ==
  [][(currentIs("INC") /\ lastCall'[1] = "step" /\ thrown' = "none") =>
       LET dest == currentOperand(0)
           source == currentOperand(1)
           result == (registers[source] + 1) % WORD_SIZE
       IN /\ registers'[dest] = result
          /\ (source # dest) => registers'[source] = registers[source]
          /\ ZF' = zeroOf(result)
          /\ MSBF' = msbOf(result)
          /\ LSBF' = lsbOf(result)
          /\ PC' = PC + 1
          /\ lineIndex' = lineIndex + 1
          /\ cycle' = cycle + 1]_vars

\* C17: after a completed step() on ADD, SUB, INC, DEC, RSH or BIT the
\* destination register holds a value in 0..255, ZF tells whether it is 0,
\* MSBF is its bit 7 and LSBF its bit 0.
C17_FlagsFromResult ==
  [][(/\ hasLine(lineIndex)
      /\ asmLines[lineIndex + 1].mnemonic \in
           {"ADD", "SUB", "INC", "DEC", "RSH", "BIT"}
      /\ lastCall'[1] = "step" /\ thrown' = "none") =>
       LET written == registers'[currentOperand(0)]
       IN /\ written \in 0..(WORD_SIZE - 1)
          /\ ZF' = zeroOf(written)
          /\ MSBF' = msbOf(written)
          /\ LSBF' = lsbOf(written)]_vars


\* C19: the stack starts empty; a completed SOP push appends the named
\* register's value as the new top and leaves the registers alone; a
\* completed SOP pop on a non-empty stack writes the top to the named register
\* and removes it, so that pushing the popped value back restores the stack.
C19_StackIsLifo ==
  /\ stack = <<>>
  /\ [][(currentIs("SOP") /\ lastCall'[1] = "step" /\ thrown' = "none") =>
          LET named == currentOperand(0)
          IN IF currentOperand(1) = 0
             THEN /\ Len(stack') = Len(stack) + 1
                  /\ stack'[Len(stack')] = registers[named]
                  /\ \A i \in 1..Len(stack) : stack'[i] = stack[i]
                  /\ registers' = registers
             ELSE stack # <<>> =>
                    /\ registers'[named] = stack[Len(stack)]
                    /\ Len(stack') = Len(stack) - 1
                    /\ \A i \in 1..Len(stack') : stack'[i] = stack[i]
                    /\ Append(stack', registers'[named]) = stack]_vars

\* 42 then 0 were pushed; the first pop returned 0 into R2, overwriting its
\* 42, and the second pop has just returned 42 into R4.
C19_Witness ==
  /\ completedStep
  /\ Len(asmLines) = 5
  /\ lineIndex = 5
  /\ registers[1] = 0
  /\ registers[3] = 42
  /\ stack = <<>>


C23_HaltIsSelfLoopOrReturnOne ==
  (lastCall[1] = "isHalt" /\ thrown = "none") =>
    LET line == asmLines[lastCall[2] + 1]
        selfLoop == /\ line.mnemonic = "BRA"
                    /\ line.label /= NoLabel
                    /\ line.operands[3].label = line.label
        returnOne == /\ line.mnemonic = "RET"
                     /\ Len(line.operands) >= 1
                     /\ line.operands[1].immediate = 1
    IN lastCall[3] = (selfLoop \/ returnOne)


\* C24: with no read pending, a step() on an unconditional BRA whose target is
\* its own offset completes, leaves PC and lineIndex at that record, counts a
\* cycle and changes nothing else; the state it leaves is again one in which
\* the same step() can be made.
C24_NoAutoStopOnSelfLoop ==
  [][(/\ ~isWaitingPortInput
      /\ currentIs("BRA")
      /\ ~conditionalBit(currentOperand(1))
      /\ currentOperand(2) = getOffsetInBytes(asmLines[lineIndex + 1])
      /\ lastCall'[1] = "step") =>
       /\ thrown' = "none"
       /\ PC' = getOffsetInBytes(asmLines[lineIndex + 1])
       /\ lineIndex' = lineIndex
       /\ cycle' > cycle
       /\ ~isWaitingPortInput'
       /\ UNCHANGED <<asmLines, PMEM, registers, ZF, COUTF, MSBF, LSBF, RAM, stack,
                      inputPorts, outputPorts>>]_vars

\* BRA 0 0 0 at offset 0 has been stepped three times and is still the
\* current record.
C24_Witness ==
  /\ completedStep
  /\ asmLines[1] = [mnemonic |-> "BRA", operands |-> <<0, 0, 0>>,
                    offsetInBytes |-> 0]
  /\ lineIndex = 0
  /\ PC = 0
  /\ cycle = 3


\* The immediate of operand k (1-based) of a record, 0 when it is absent.
operandOrZero(line, k) ==
  IF Len(line.operands) >= k THEN line.operands[k].immediate ELSE 0

\* C25: for an instruction record with 0 to 3 resolved operands, operands 0
\* and 1 in 0..3, getBytes() returns getSizeInBytes() bytes; byte one is
\* operand[1]*64 + operand[0]*16 + opcode, lies in 0..255 and decodes back to
\* operand[1] (bits 6-7), operand[0] (bits 4-5) and the opcode (bits 0-3, in
\* 0..15); a third operand is byte two as it stands.
C25_InstructionEncoding ==
  (/\ lastCall[1] = "getBytes"
   /\ thrown = "none"
   /\ asmLines[lastCall[2] + 1].mnemonic \in instructionMnemonics
   /\ operandOrZero(asmLines[lastCall[2] + 1], 1) \in 0..3
   /\ operandOrZero(asmLines[lastCall[2] + 1], 2) \in 0..3) =>
    LET line == asmLines[lastCall[2] + 1]
        bytes == lastCall[3]
        opcode == CHOOSE o \in 0..15 :
                    INSTRUCTION_MNEMONICS[o + 1] = line.mnemonic
    IN /\ Len(bytes) = getSizeInBytes(line)
       /\ bytes[1] = operandOrZero(line, 2) * 64 + operandOrZero(line, 1) * 16
                       + opcode
       /\ bytes[1] \in 0..255
       /\ bytes[1] \div 64 = operandOrZero(line, 2)
       /\ (bytes[1] \div 16) % 4 = operandOrZero(line, 1)
       /\ bytes[1] % 16 = opcode
       /\ Len(line.operands) = 3 => bytes[2] = line.operands[3].immediate

\* IMM R4 2 255 has been encoded as [2*64 + 3*16 + 10, 255].
C25_Witness ==
  /\ lastCall = <<"getBytes", 0, <<186, 255>>>>
  /\ asmLines[1].mnemonic = "IMM"
  /\ Len(asmLines) = 1


\* C26: for a data-directive (DW) record with the single literal operand v in
\* 0..255, getBytes() returns the one byte v, with no opcode bits and no
\* shifting of the operand.
C26_DataIsOneRawByte ==
  (/\ lastCall[1] = "getBytes"
   /\ thrown = "none"
   /\ asmLines[lastCall[2] + 1].isData) =>
    lastCall[3] = << asmLines[lastCall[2] + 1].operands[1].immediate >>


\* C27: after assembly each record's offset is the sum of the sizes of the
\* records before it, so the offsets are strictly increasing and unique, and
\* every operand written as a label holds the offset of the record the label
\* annotates, whether that record is ahead or behind.
C27_OffsetsAndLabelsResolved ==
  /\ \A i \in 1..Len(asmLines) :
       /\ getOffsetInBytes(asmLines[i]) = offsetOf(asmLines, i)
       /\ \A j \in 1..(i - 1) :
            getOffsetInBytes(asmLines[j]) < getOffsetInBytes(asmLines[i])
  /\ \A i \in 1..Len(asmLines) :
       \A k \in 1..Len(asmLines[i].operands) :
         LET operand == asmLines[i].operands[k]
         IN operand.label /= NoLabel =>
              /\ \E j \in 1..Len(asmLines) : asmLines[j].label = operand.label
              /\ \A j \in 1..Len(asmLines) :
                   asmLines[j].label = operand.label =>
                     operand.immediate = getOffsetInBytes(asmLines[j])

\* BRA 0 0 .branch / IMM R1 0 1 / .branch / IMM R1 0 2: the label stands
\* after two 2-byte records and the operand of the BRA holds 4.
C27_Witness ==
  /\ Len(asmLines) = 3
  /\ asmLines[1].mnemonic = "BRA"
  /\ asmLines[1].operands[3] = [immediate |-> 4, label |-> "branch"]
  /\ asmLines[3].label = "branch"
  /\ getOffsetInBytes(asmLines[3]) = 4


\* C28: the port slots hold the last value per port. Every slot starts at 0;
\* outputPorts[p] changes only when a step() on a PST for port p completes,
\* and then to the value of the source register; inputPorts[p] changes only
\* when a portInput(value) for a PLD on port p succeeds, and then to value.
\* A PST on port p changes only outputPorts[p], PC, lineIndex and cycle.
C28_PortsHoldLastValue ==
  /\ \A p \in 0..3 : outputPorts[p] = 0 /\ inputPorts[p] = 0
  /\ [][\A p \in 0..3 :
          LET stored == /\ currentIs("PST")
                        /\ currentOperand(1) = p
                        /\ lastCall'[1] = "step"
                        /\ thrown' = "none"
              received == /\ currentIs("PLD")
                          /\ currentOperand(1) = p
                          /\ lastCall'[1] = "portInput"
                          /\ thrown' = "none"
          IN /\ outputPorts'[p] = IF stored THEN registers[currentOperand(0)]
                                  ELSE outputPorts[p]
             /\ inputPorts'[p] = IF received THEN lastCall'[2]
                                 ELSE inputPorts[p]
             /\ stored => UNCHANGED <<asmLines, PMEM, registers, ZF, COUTF, MSBF,
                                      LSBF, RAM, stack, inputPorts,
                                      isWaitingPortInput>>]_vars

\* IMM R1 0 255 / PST R1 0 / IMM R1 0 42 / PST R1 0 / PST R1 3 has run: port
\* 0 holds the second value written to it and port 3 the only one.
C28_Witness ==
  /\ completedStep
  /\ Len(asmLines) = 5
  /\ lineIndex = 5
  /\ outputPorts = [p \in 0..3 |-> IF p \in {0, 3} THEN 42 ELSE 0]


\* C29: whenever a port read is pending, the record at lineIndex exists and
\* is a PLD; so portInput() never fails for finding another record there.
C29_PendingOnlyAtPortLoad ==
  /\ isWaitingPortInput => currentIs("PLD")
  /\ thrown /= "Illegal state: current instruction is not PLD but we are waiting for port input"

\* PLD R1 1 / PLD R2 1: the first read has been answered and the second PLD
\* has suspended in its turn.
C29_Witness ==
  /\ isWaitingPortInput
  /\ lineIndex = 1
  /\ asmLines[2].mnemonic = "PLD"
  /\ inputPorts[1] = 255
  /\ cycle = 1


\* C30: the program is read-only at run time: no step() and no portInput(),
\* whether it completes or throws, changes asmLines (the number of records or
\* any field of a record) or the PMEM byte image made at construction.
C30_ProgramIsReadOnly ==
  [][lastCall'[1] \in {"step", "portInput"} =>
       /\ asmLines' = asmLines
       /\ PMEM' = PMEM]_vars

\* PLD R1 1 / PLD R2 1 / PST R2 2: a read has been answered, the next one is
\* pending and a step() has just been refused; the image is the one made at
\* construction.
C30_Witness ==
  /\ lastCall[1] = "step"
  /\ thrown = StepWhilePending
  /\ lineIndex = 1
  /\ Len(asmLines) = 3
  /\ PMEM = <<73, 89, 152>>

====
